---- MODULE Spec2Model ----
(***************************************************************************)
(* Model of the multi-application scanning run of sast-viewer              *)
(* (src/src/index.ts, main) together with the GitHub and Azure DevOps      *)
(* connectors it awaits and the normalizers those connectors apply.        *)
(*                                                                         *)
(* JavaScript values that come from the remote payloads are modelled as    *)
(* tagged records: Str(s) is a string, Undef is undefined / a missing      *)
(* field, Num(n) is a number, Fn(n) a function object and Obj(n) another   *)
(* object.  A call that may throw returns Ret(v) or Throw(message).        *)
(*                                                                         *)
(* Spec is the run of main, from validation to the written report.         *)
(* TwoAppsSpec is that run for one GitHub and one Azure DevOps             *)
(* application, with responses of up to two alerts.                        *)
(* NormSpec takes the producers of Findings on their own: a raw record is  *)
(* drawn and the normalizers and fetches are applied to it, call by call.  *)
(* ConnSpec takes the connectors on their own: an application name, a base *)
(* URL and the outcome of the request are drawn and the fetches applied.   *)
(***************************************************************************)
EXTENDS Integers, Sequences, FiniteSets, TLC

\* ------------------------------------------------------------------ bounds
\* Largest number of configured applications (both lists together).
MaxApps == 2
\* Largest number of alerts in one remote response.
MaxAlerts == 1
\* Latest instant the clock reaches.
MaxClock == 2
\* Largest number of normalizer calls made on one raw record.
MaxCalls == 2
\* Largest number of characters of an application name given to a connector.
MaxNameLen == 3

\* ------------------------------------------------------- JavaScript values
Str(s) == [str |-> s]
Num(n) == [num |-> n]
Fn(n) == [fn |-> n]
Obj(n) == [obj |-> n]
Undef == [undef |-> TRUE]

IsStr(v) == "str" \in DOMAIN v
IsUndef(v) == "undef" \in DOMAIN v

\* JavaScript truthiness of a value.
Truthy(v) ==
  IF "str" \in DOMAIN v THEN v.str # ""
  ELSE IF "num" \in DOMAIN v THEN v.num # 0
  ELSE IF "undef" \in DOMAIN v THEN FALSE
  ELSE TRUE

\* a || b
Or(a, b) == IF Truthy(a) THEN a ELSE b

Ret(v) == [ret |-> v]
Throw(m) == [threw |-> m]
IsThrow(r) == "threw" \in DOMAIN r

\* String.prototype.toLowerCase on the strings the model feeds it.
toLowerCase(s) ==
  CASE s = "HIGH" -> "high"
    [] s = "High" -> "high"
    [] s = "Critical" -> "critical"
    [] s = "LOW" -> "low"
    [] s = "Unknown" -> "unknown"
    [] OTHER -> s

\* ------------------------------------------------------- program constants
BRANCH_NAME == "main"

\* Names an application list may hold.
AppNames == {"svc-a", "svc-b"}

\* ------------------------------------------ GitHub code-scanning normalizer
\* Own keys of the severityMap object literal of the code-scanning service.
CodeSeverityKeys ==
  {"critical", "high", "medium", "low", "warning", "note", "error", "recommendation"}

CodeSeverityOwn(k) ==
  CASE k = "critical" -> Str("critical")
    [] k = "high" -> Str("high")
    [] k = "medium" -> Str("medium")
    [] k = "low" -> Str("low")
    [] k = "warning" -> Str("warning")
    [] k = "note" -> Str("note")
    [] k = "error" -> Str("high")
    [] k = "recommendation" -> Str("medium")

\* Property read obj[k] that misses the own keys of a plain object literal:
\* the properties inherited from Object.prototype, else undefined.
InheritedProperty(k) ==
  IF k = "constructor" THEN Fn("Object")
  ELSE IF k = "__proto__" THEN Obj("Object.prototype")
  ELSE Undef

\* severityMap[k] of the code-scanning service.
CodeSeverityMap(k) ==
  IF k \in CodeSeverityKeys THEN CodeSeverityOwn(k) ELSE InheritedProperty(k)

\* GitHubCodeScanningResultService.mapGitHubSeverity
mapGitHubSeverity(githubSeverity) ==
  IF ~IsStr(githubSeverity)
  THEN Throw("githubSeverity.toLowerCase is not a function")
  ELSE LET mapped == CodeSeverityMap(toLowerCase(githubSeverity.str))
       IN  Ret(Or(mapped, Str("medium")))

\* ------------------------------------------------------------------- dates
\* A Date object holds a time value or is an Invalid Date.
ValidDate(t) == [time |-> t]
InvalidDate == [nan |-> TRUE]

\* Date parsing of the timestamp strings the model feeds it; any other
\* string does not parse.
ParseDate(s) ==
  CASE s = "2024-01-01T00:00:00Z" -> ValidDate(1)
    [] s = "2024-06-01T00:00:00Z" -> ValidDate(2)
    [] OTHER -> InvalidDate

\* new Date(v): a string is parsed, a number is the time value, undefined
\* (and what does not convert to a number) gives an Invalid Date.
NewDate(v) ==
  IF IsStr(v) THEN ParseDate(v.str)
  ELSE IF "num" \in DOMAIN v THEN ValidDate(v.num)
  ELSE InvalidDate

\* a >= b on two Dates: false as soon as one of them is an Invalid Date.
DateGe(a, b) ==
  /\ "time" \in DOMAIN a
  /\ "time" \in DOMAIN b
  /\ a.time >= b.time

\* ------------------------------------------------------------- raw alerts
\* A raw alert that is not a record at all (null in the response array).
NullAlert == [null |-> TRUE]
IsNullAlert(a) == "null" \in DOMAIN a

\* A raw alert that is a primitive value (a string or a number in the
\* response array): every property read of it gives undefined.
PrimitiveAlert(v) == [primitive |-> v]
IsPrimitiveAlert(a) == "primitive" \in DOMAIN a

\* The raw alert {}: every field the normalizers read is missing.  The
\* fields are named by their path in the payload (rule_severity is
\* alert.rule.severity, location_path is alert.instances[0].location.path,
\* advisory_severity is alert.security_advisory.severity, package_name is
\* alert.dependency.package.name, and so on).
EmptyAlert ==
  [rule_severity |-> Undef, severity |-> Undef, advisory_severity |-> Undef,
   state |-> Undef,
   created_at |-> Undef, created |-> Undef, updated_at |-> Undef, updated |-> Undef,
   rule_description |-> Undef, message_text |-> Undef, advisory_description |-> Undef,
   location_path |-> Undef, location_file |-> Undef,
   start_line |-> Undef, region_start_line |-> Undef, snippet_code |-> Undef,
   package_name |-> Undef, dependency_package_name |-> Undef,
   dependency_version |-> Undef, cve_id |-> Undef]

\* alert.<field>, with optional chaining where the code uses it.
Prop(alert, field) == IF IsPrimitiveAlert(alert) THEN Undef ELSE alert[field]

\* A raw code-scanning alert: rule.severity, alert.severity, alert.state.
CodeAlert(ruleSeverity, severity, state) ==
  [EmptyAlert EXCEPT !.rule_severity = ruleSeverity, !.severity = severity,
                     !.state = state]

\* GitHubCodeScanningResultService.mapGitHubAlertToResult
mapGitHubAlertToResult(alert, branchName) ==
  IF IsNullAlert(alert)
  THEN Throw("Cannot read properties of null (reading 'tool')")
  ELSE LET sev == mapGitHubSeverity(
                    Or(Prop(alert, "rule_severity"),
                       Or(Prop(alert, "severity"), Str("medium"))))
       IN  IF IsThrow(sev) THEN sev
           ELSE Ret([severity |-> sev.ret,
                     description |->
                       Or(Prop(alert, "rule_description"),
                          Or(Prop(alert, "message_text"), Str("No description provided"))),
                     createdAt |->
                       NewDate(Or(Prop(alert, "created_at"), Prop(alert, "created"))),
                     updatedAt |->
                       NewDate(Or(Prop(alert, "updated_at"),
                                  Or(Prop(alert, "updated"),
                                     Or(Prop(alert, "created_at"), Prop(alert, "created"))))),
                     state |-> Or(Prop(alert, "state"), Str("open")),
                     tool |-> "GitHub",
                     ref |-> branchName,
                     filePath |->
                       Or(Prop(alert, "location_path"),
                          Or(Prop(alert, "location_file"), Str(""))),
                     startLine |->
                       Or(Prop(alert, "start_line"), Prop(alert, "region_start_line")),
                     codeSnippet |-> Or(Prop(alert, "snippet_code"), Str("")),
                     category |-> "code-scanning",
                     packageName |-> Undef,
                     version |-> Undef,
                     cveId |-> Undef])

\* ------------------------------------ GitHub dependency-scanning normalizer
DepSeverityKeys == {"critical", "high", "medium", "low", "unknown"}

DepSeverityOwn(k) ==
  CASE k = "critical" -> Str("critical")
    [] k = "high" -> Str("high")
    [] k = "medium" -> Str("medium")
    [] k = "low" -> Str("low")
    [] k = "unknown" -> Str("warning")

\* severityMap[k] of the dependency-scanning service.
DepSeverityMap(k) ==
  IF k \in DepSeverityKeys THEN DepSeverityOwn(k) ELSE InheritedProperty(k)

\* GitHubDependencyScanningResultService.mapGitHubSeverity
mapGitHubDependencySeverity(githubSeverity) ==
  IF ~IsStr(githubSeverity)
  THEN Throw("githubSeverity.toLowerCase is not a function")
  ELSE LET mapped == DepSeverityMap(toLowerCase(githubSeverity.str))
       IN  Ret(Or(mapped, Str("medium")))

\* A raw Dependabot alert: security_advisory.severity and alert.state.
DependabotAlert(advisorySeverity, state) ==
  [EmptyAlert EXCEPT !.advisory_severity = advisorySeverity, !.state = state]

\* GitHubDependencyScanningResultService.mapGitHubDependabotAlertToResult
mapGitHubDependabotAlertToResult(alert, branchName) ==
  IF IsNullAlert(alert)
  THEN Throw("Cannot read properties of null (reading 'dependency')")
  ELSE LET sev == mapGitHubDependencySeverity(
                    Or(Prop(alert, "advisory_severity"), Str("medium")))
       IN  IF IsThrow(sev) THEN sev
           ELSE Ret([severity |-> sev.ret,
                     description |->
                       Or(Prop(alert, "advisory_description"),
                          Str("No description provided")),
                     createdAt |->
                       NewDate(Or(Prop(alert, "created_at"), Prop(alert, "created"))),
                     updatedAt |->
                       NewDate(Or(Prop(alert, "updated_at"),
                                  Or(Prop(alert, "updated"),
                                     Or(Prop(alert, "created_at"), Prop(alert, "created"))))),
                     state |-> Or(Prop(alert, "state"), Str("open")),
                     tool |-> "GitHub",
                     ref |-> branchName,
                     filePath |-> Str(""),
                     startLine |-> Undef,
                     codeSnippet |-> Str(""),
                     category |-> "dependency-scanning",
                     packageName |->
                       Or(Prop(alert, "package_name"),
                          Or(Prop(alert, "dependency_package_name"), Str(""))),
                     version |-> Or(Prop(alert, "dependency_version"), Str("")),
                     cveId |-> Or(Prop(alert, "cve_id"), Str(""))])

\* ------------------------------------------------------------ remote calls
\* What one HTTP request of a connector comes back with: a 2xx response with
\* a body, or an axios error carrying an optional response, the request flag
\* and a message.
Array(items) == [array |-> items]
IsArray(d) == "array" \in DOMAIN d
HttpOk(data) == [data |-> data]
NoResponse == [absent |-> TRUE]
Response(status, dataMessage) == [status |-> status, data_message |-> dataMessage]
HttpError(response, request, message) ==
  [error |-> [response |-> response, request |-> request, message |-> message]]
IsHttpError(h) == "error" \in DOMAIN h

\* A TypeError (or any plain Error) thrown inside the try block: it has
\* neither a response nor a request property.
PlainError(message) == [response |-> NoResponse, request |-> FALSE, message |-> message]

\* Variant: the request is tested before the response.
ClassifyError_RequestFirst(platform, error) ==
  IF error.request
  THEN "Network Error: No response received from " \o platform \o " API"
  ELSE IF error.response # NoResponse
  THEN platform \o " API Error: " \o ToString(error.response.status) \o " - "
         \o Or(error.response.data_message, Str(error.message)).str
  ELSE "Request Setup Error: " \o error.message

\* The catch block shared by the connectors: the message of the error that is
\* re-thrown, by the precedence response, request, otherwise.
ClassifyError(platform, error) ==
  IF error.response # NoResponse
  THEN platform \o " API Error: " \o ToString(error.response.status) \o " - "
         \o Or(error.response.data_message, Str(error.message)).str
  ELSE IF error.request
  THEN "Network Error: No response received from " \o platform \o " API"
  ELSE "Request Setup Error: " \o error.message

\* response.data.map(alert => this.mapGitHubAlertToResult(alert, branchName)):
\* the mapped array, or the first exception the callback throws.
RECURSIVE MapCodeAlerts(_, _)
MapCodeAlerts(alerts, branchName) ==
  IF alerts = <<>> THEN Ret(<<>>)
  ELSE LET first == mapGitHubAlertToResult(Head(alerts), branchName)
       IN  IF IsThrow(first) THEN first
           ELSE LET rest == MapCodeAlerts(Tail(alerts), branchName)
                IN  IF IsThrow(rest) THEN rest
                    ELSE Ret(<<first.ret>> \o rest.ret)

\* response.data.map(alert => this.mapGitHubDependabotAlertToResult(alert, branchName))
RECURSIVE MapDependabotAlerts(_, _)
MapDependabotAlerts(alerts, branchName) ==
  IF alerts = <<>> THEN Ret(<<>>)
  ELSE LET first == mapGitHubDependabotAlertToResult(Head(alerts), branchName)
       IN  IF IsThrow(first) THEN first
           ELSE LET rest == MapDependabotAlerts(Tail(alerts), branchName)
                IN  IF IsThrow(rest) THEN rest
                    ELSE Ret(<<first.ret>> \o rest.ret)

\* Variant: a body that is not an array is an error.
fetchCodeScanningResults_RejectBody(http, branchName) ==
  IF IsHttpError(http) THEN Throw(ClassifyError("GitHub", http.error))
  ELSE IF ~IsArray(http.data)
  THEN Throw(ClassifyError("GitHub", PlainError("Unexpected response format")))
  ELSE LET results == MapCodeAlerts(http.data.array, branchName)
       IN  IF IsThrow(results)
           THEN Throw(ClassifyError("GitHub", PlainError(results.threw)))
           ELSE results

\* GitHubCodeScanningResultService.fetchCodeScanningResults, given what the
\* GET /code-scanning/alerts request comes back with.
fetchCodeScanningResults(http, branchName) ==
  IF IsHttpError(http) THEN Throw(ClassifyError("GitHub", http.error))
  ELSE IF ~IsArray(http.data) THEN Ret(<<>>)
  ELSE LET results == MapCodeAlerts(http.data.array, branchName)
       IN  IF IsThrow(results)
           THEN Throw(ClassifyError("GitHub", PlainError(results.threw)))
           ELSE results

\* GitHubDependencyScanningResultService.fetchDependencyScanningResults, given
\* what the GET /dependabot/alerts request comes back with.
fetchDependencyScanningResults(http, branchName) ==
  IF IsHttpError(http) THEN Throw(ClassifyError("GitHub", http.error))
  ELSE IF ~IsArray(http.data) THEN Ret(<<>>)
  ELSE LET results == MapDependabotAlerts(http.data.array, branchName)
       IN  IF IsThrow(results)
           THEN Throw(ClassifyError("GitHub", PlainError(results.threw)))
           ELSE results

\* AzureDevOpsCodeScanningResultService.fetchCodeScanningResults, given what
\* the GET /build/builds request comes back with (http.data models
\* buildsResponse.data.value): no code-scanning data in either case.
azureFetchCodeScanningResults(http, branchName) ==
  IF IsHttpError(http) THEN Throw(ClassifyError("Azure DevOps", http.error))
  ELSE IF ~IsArray(http.data) THEN Ret(<<>>)
  ELSE Ret(<<>>)

\* Variant: only the first simulated finding is returned.
generateSimulatedResults_FirstOnly(applicationName, branchName, now) ==
  << [severity |-> Str("high"),
      description |-> Str("A known vulnerability exists in the current version of lodash"),
      createdAt |-> ValidDate(now), updatedAt |-> ValidDate(now),
      state |-> Str("open"), tool |-> "AzureDevOps", branchName |-> branchName,
      filePath |-> Str("package.json"), line |-> Num(10), column |-> Num(5),
      snippet |-> Str("\"lodash\": \"^4.17.10\""),
      category |-> "dependency-scanning",
      package |-> Str("lodash"), packageVersion |-> Str("4.17.10"),
      vulnerabilityId |-> Str("CVE-2020-8203"),
      detectionDate |-> ValidDate(now)] >>

\* AzureDevOpsDependencyScanningResultService.generateSimulatedResults, called
\* at the instant now: every new Date() of the call reads that instant.
generateSimulatedResults(applicationName, branchName, now) ==
  << [severity |-> Str("high"),
      description |-> Str("A known vulnerability exists in the current version of lodash"),
      createdAt |-> ValidDate(now), updatedAt |-> ValidDate(now),
      state |-> Str("open"), tool |-> "AzureDevOps", branchName |-> branchName,
      filePath |-> Str("package.json"), line |-> Num(10), column |-> Num(5),
      snippet |-> Str("\"lodash\": \"^4.17.10\""),
      category |-> "dependency-scanning",
      package |-> Str("lodash"), packageVersion |-> Str("4.17.10"),
      vulnerabilityId |-> Str("CVE-2020-8203"),
      detectionDate |-> ValidDate(now)],
     [severity |-> Str("medium"),
      description |->
        Str("The current version of moment is outdated and has known issues"),
      createdAt |-> ValidDate(now), updatedAt |-> ValidDate(now),
      state |-> Str("open"), tool |-> "AzureDevOps", branchName |-> branchName,
      filePath |-> Str("package.json"), line |-> Num(15), column |-> Num(5),
      snippet |-> Str("\"moment\": \"^2.24.0\""),
      category |-> "dependency-scanning",
      package |-> Str("moment"), packageVersion |-> Str("2.24.0"),
      vulnerabilityId |-> Str("CVE-2020-16135"),
      detectionDate |-> ValidDate(now)] >>

\* AzureDevOpsDependencyScanningResultService.fetchDependencyScanningResults:
\* no request is sent, the simulated results are returned.
azureFetchDependencyScanningResults(applicationName, branchName, now) ==
  Ret(generateSimulatedResults(applicationName, branchName, now))

\* ------------------------------------------------- inputs the run may meet
SeqsUpTo(S, n) == UNION {[1..k -> S] : k \in 0..n}

\* Raw code-scanning alerts a response may carry.
CodeAlerts ==
  { CodeAlert(Undef, Str("High"), Undef),
    CodeAlert(Str("constructor"), Undef, Str("open")),
    NullAlert }

\* Raw Dependabot alerts a response may carry during a run (what the
\* dependency connector does with any other raw record is part of NormSpec).
DependabotAlerts ==
  { DependabotAlert(Str("unknown"), Undef) }

\* Failures of a GitHub request: an error status.  (An error that has neither
\* a response nor a request is what a raw record that cannot be read raises
\* inside the try block.)
GitHubHttpErrors ==
  { HttpError(Response(404, Str("Not Found")), TRUE, "Request failed with status code 404") }

\* Failures of an Azure DevOps request: no response at all.
AzureHttpErrors ==
  { HttpError(NoResponse, TRUE, "timeout of 30000ms exceeded") }

HttpOutcomes(alerts) ==
  {HttpOk(Array(a)) : a \in SeqsUpTo(alerts, MaxAlerts)}
    \cup {HttpOk(Obj("body"))} \cup GitHubHttpErrors

\* Outcomes of GET /build/builds: a list of builds, a body without one, a failure.
BuildsOutcomes ==
  {HttpOk(Array(<<>>)), HttpOk(Obj("body"))} \cup AzureHttpErrors

\* ------------------------------------------------------------------- state
VARIABLES
  githubApps,              \* GITHUB_APP_NAMES_ARRAY
  azureApps,               \* AZURE_DEVOPS_APP_NAMES_ARRAY
  pc,                      \* where main is
  i,                       \* position of the current application in its list
  githubCodeResults,       \* local of the GitHub loop body
  azureDevOpsCodeResults,  \* local of the Azure DevOps loop body
  allApplicationsResults,
  applicationErrors,
  summary,                 \* multiAppResults.summary once computed
  calls,                   \* the connector calls made so far, in order
  unset,                   \* the required settings the environment leaves empty
  renders,                 \* how many times renderReport was called
  written,                 \* the reports written to OUTPUT_DIR, in order
  clock,                   \* the instant new Date() reads
  inFlight,                \* the connector calls main has made and awaits
  raw,                     \* the raw record handed to the normalizers
  produced                 \* what the normalizers returned for it, call by call

\* The configuration the process starts with.
cfgVars == << githubApps, azureApps, unset >>
\* What the process leaves behind.
outVars == << renders, written >>
\* The normalizers taken on their own.
normVars == << raw, produced >>

vars == << githubApps, azureApps, pc, i, githubCodeResults, azureDevOpsCodeResults,
           allApplicationsResults, applicationErrors, summary, calls,
           unset, renders, written, clock, inFlight, raw, produced >>

NoSummary == [absent |-> TRUE]

\* An AggregatedScanningResult (the timestamp is left out).
AppResult(appName, ghCode, ghDep, azCode, azDep) ==
  [applicationName |-> appName,
   branchName |-> BRANCH_NAME,
   githubResults |-> [codeScanning |-> ghCode, dependencyScanning |-> ghDep],
   azureDevOpsResults |-> [codeScanning |-> azCode, dependencyScanning |-> azDep]]

\* errorResult of the two catch blocks.
ErrorResult(appName) == AppResult(appName, <<>>, <<>>, <<>>, <<>>)

\* What the remote call of a connector came back with: a failure, a 2xx
\* response with nothing usable in it (an empty list, a body that is no
\* list), or a list of records.
ResponseKind(http) ==
  IF IsHttpError(http) THEN "error"
  ELSE IF ~IsArray(http.data) THEN "nothing"
  ELSE IF Len(http.data.array) = 0 THEN "nothing"
  ELSE "records"

\* The Azure DevOps dependency connector sends no request.
NoRequest == "no request"

\* A connector call main has made: the application's position, the platform
\* and the category.
Request(entry, platform, category) ==
  [entry |-> entry, platform |-> platform, category |-> category]

\* One connector call as it returned.
Call(entry, appName, platform, category, response, r) ==
  [entry |-> entry, applicationName |-> appName, platform |-> platform,
   category |-> category, response |-> response, threw |-> IsThrow(r),
   findings |-> IF IsThrow(r) THEN <<>> ELSE r.ret,
   message |-> IF IsThrow(r) THEN r.threw ELSE ""]

\* Where main goes after the GitHub application at position k.
AfterGitHubApp(k) ==
  IF k < Len(githubApps) THEN [pc |-> "ghCode", i |-> k + 1]
  ELSE IF Len(azureApps) > 0 THEN [pc |-> "azCode", i |-> 1]
  ELSE [pc |-> "summary", i |-> 0]

\* Where main goes after the Azure DevOps application at position k.
AfterAzureApp(k) ==
  IF k < Len(azureApps) THEN [pc |-> "azCode", i |-> k + 1]
  ELSE [pc |-> "summary", i |-> 0]

\* Variant: the error is recorded as String(error) instead of error.message.
GitHubPushError_Stringified(errors, appName, message) ==
  Append(errors, [applicationName |-> "GitHub: " \o appName, error |-> "Error: " \o message])

\* Variant: unshift instead of push.
GitHubPushError_Unshift(errors, appName, message) ==
  <<[applicationName |-> "GitHub: " \o appName, error |-> message]>> \o errors

\* applicationErrors.push of the GitHub catch block.
GitHubPushError(errors, appName, message) ==
  Append(errors, [applicationName |-> "GitHub: " \o appName, error |-> message])

\* Variant: the catch block logs the failure but records no ScanError.
AzurePushError_NoPush(errors, appName, message) == errors

\* applicationErrors.push of the Azure DevOps catch block.
AzurePushError(errors, appName, message) ==
  Append(errors, [applicationName |-> "Azure DevOps: " \o appName, error |-> message])

\* Variant: the catch block records the error but pushes no placeholder.
PushErrorResult_NoPush(results, appName) == results

\* allApplicationsResults.push(errorResult) of the two catch blocks.
PushErrorResult(results, appName) == Append(results, ErrorResult(appName))

\* ------------------------------------------------------------- validation
\* The settings validateEnvironmentVariables requires besides the application
\* names.
RequiredSettings ==
  {"GITHUB_ORG_NAME", "GITHUB_TOKEN", "AZURE_DEVOPS_ORG_NAME",
   "AZURE_DEVOPS_PROJECT_NAME", "AZURE_DEVOPS_TOKEN"}

\* The sets of empty required settings a run is started with: none, one, all.
UnsetChoices == {{}, {"GITHUB_TOKEN"}, RequiredSettings}

\* The application names the environment configures: the two lists main
\* iterates over.
APPLICATION_NAMES == githubApps \o azureApps

\* Variant: the test for an empty application list is left out.
validateEnvironmentVariables_NoListTest(missingVars, applicationNames) ==
  IF missingVars # {}
  THEN Throw("Missing required environment variables")
  ELSE Ret(Undef)

\* validateEnvironmentVariables: throws when a required setting is empty, then
\* when no application name is configured.
validateEnvironmentVariables(missingVars, applicationNames) ==
  IF missingVars # {}
  THEN Throw("Missing required environment variables")
  ELSE IF Len(applicationNames) = 0
  THEN Throw("No valid application names provided")
  ELSE Ret(Undef)

\* No raw record is under test while main runs.
NoRaw == [absent |-> TRUE]

Init ==
  /\ githubApps \in SeqsUpTo(AppNames, MaxApps)
  /\ azureApps \in SeqsUpTo(AppNames, MaxApps)
  /\ Len(githubApps) + Len(azureApps) \in 0..MaxApps
  /\ unset \in UnsetChoices
  /\ pc = "validate"
  /\ i = 0
  /\ githubCodeResults = <<>>
  /\ azureDevOpsCodeResults = <<>>
  /\ allApplicationsResults = <<>>
  /\ applicationErrors = <<>>
  /\ summary = NoSummary
  /\ calls = <<>>
  /\ renders = 0
  /\ written = <<>>
  /\ clock = 0
  /\ inFlight = {}
  /\ raw = NoRaw
  /\ produced = <<>>

\* The first statement of main's try block: validation, whose exception goes
\* to the outer catch and exit(1); otherwise the services are constructed and
\* the GitHub loop starts.
Validate ==
  /\ pc = "validate"
  /\ LET v == validateEnvironmentVariables(unset, APPLICATION_NAMES)
     IN  IF IsThrow(v)
         THEN pc' = "fatal" /\ UNCHANGED i
         ELSE pc' = AfterGitHubApp(0).pc /\ i' = AfterGitHubApp(0).i
  /\ UNCHANGED << cfgVars, outVars, normVars, clock, inFlight, githubCodeResults,
                  azureDevOpsCodeResults, allApplicationsResults, applicationErrors,
                  summary, calls >>

\* The connector call main makes where it stands.
NextRequest ==
  CASE pc = "ghCode" -> Request(i, "github", "code-scanning")
    [] pc = "ghDep" -> Request(i, "github", "dependency-scanning")
    [] pc = "azCode" -> Request(Len(githubApps) + i, "azure-devops", "code-scanning")
    [] pc = "azDep" -> Request(Len(githubApps) + i, "azure-devops", "dependency-scanning")

\* Variant: the two fetches of a GitHub application are started together
\* (Promise.all) instead of one after the other.
BeginFetch_Together ==
  /\ pc \in {"ghCode", "ghDep", "azCode", "azDep"}
  /\ inFlight = {}
  /\ inFlight' = IF pc = "ghCode"
                 THEN {NextRequest, Request(i, "github", "dependency-scanning")}
                 ELSE {NextRequest}
  /\ UNCHANGED << cfgVars, outVars, normVars, clock, pc, i, githubCodeResults,
                  azureDevOpsCodeResults, allApplicationsResults, applicationErrors,
                  summary, calls >>

\* main calls the connector the loop body names next and suspends at the
\* await until the call returns or throws.
BeginFetch ==
  /\ pc \in {"ghCode", "ghDep", "azCode", "azDep"}
  /\ inFlight = {}
  /\ inFlight' = {NextRequest}
  /\ UNCHANGED << cfgVars, outVars, normVars, clock, pc, i, githubCodeResults,
                  azureDevOpsCodeResults, allApplicationsResults, applicationErrors,
                  summary, calls >>

\* Variant: the code-scanning fetch has a try/catch of its own, so that after
\* its failure the dependency fetch of the same application is still made.
GitHubFetchCode_Continue ==
  /\ pc = "ghCode"
  /\ Request(i, "github", "code-scanning") \in inFlight
  /\ inFlight' = inFlight \ {Request(i, "github", "code-scanning")}
  /\ \E http \in HttpOutcomes(CodeAlerts) :
       LET appName == githubApps[i]
           r == fetchCodeScanningResults(http, BRANCH_NAME)
       IN  /\ calls' = Append(calls, Call(i, appName, "github", "code-scanning", ResponseKind(http), r))
           /\ githubCodeResults' = IF IsThrow(r) THEN <<>> ELSE r.ret
           /\ pc' = "ghDep"
           /\ UNCHANGED << i, applicationErrors, allApplicationsResults >>
  /\ UNCHANGED << cfgVars, outVars, normVars, clock, azureDevOpsCodeResults, summary >>

\* What follows the first await of the GitHub loop body once the request has
\* come back with http: the dependency fetch is next, or the catch block runs.
GitHubCodeFetched(http) ==
  LET appName == githubApps[i]
      r == fetchCodeScanningResults(http, BRANCH_NAME)
  IN  /\ calls' = Append(calls, Call(i, appName, "github", "code-scanning",
                                     ResponseKind(http), r))
      /\ IF IsThrow(r)
         THEN /\ applicationErrors' = GitHubPushError(applicationErrors, appName, r.threw)
              /\ allApplicationsResults' = PushErrorResult(allApplicationsResults, appName)
              /\ pc' = AfterGitHubApp(i).pc
              /\ i' = AfterGitHubApp(i).i
              /\ githubCodeResults' = <<>>
         ELSE /\ githubCodeResults' = r.ret
              /\ pc' = "ghDep"
              /\ UNCHANGED << i, applicationErrors, allApplicationsResults >>

\* The first await of the GitHub loop body returns.
GitHubFetchCode ==
  /\ pc = "ghCode"
  /\ Request(i, "github", "code-scanning") \in inFlight
  /\ inFlight' = inFlight \ {Request(i, "github", "code-scanning")}
  /\ \E http \in HttpOutcomes(CodeAlerts) : GitHubCodeFetched(http)
  /\ UNCHANGED << cfgVars, outVars, normVars, clock, azureDevOpsCodeResults, summary >>

\* Variant: when the dependency fetch fails, the code-scanning findings already
\* obtained are kept in the ApplicationResult that is pushed.
GitHubFetchDependency_KeepCode ==
  /\ pc = "ghDep"
  /\ Request(i, "github", "dependency-scanning") \in inFlight
  /\ inFlight' = inFlight \ {Request(i, "github", "dependency-scanning")}
  /\ \E http \in HttpOutcomes(DependabotAlerts) :
       LET appName == githubApps[i]
           r == fetchDependencyScanningResults(http, BRANCH_NAME)
       IN  /\ calls' = Append(calls, Call(i, appName, "github", "dependency-scanning", ResponseKind(http), r))
           /\ IF IsThrow(r)
              THEN /\ applicationErrors' = GitHubPushError(applicationErrors, appName, r.threw)
                   /\ allApplicationsResults' =
                        Append(allApplicationsResults,
                               AppResult(appName, githubCodeResults, <<>>, <<>>, <<>>))
              ELSE /\ allApplicationsResults' =
                        Append(allApplicationsResults,
                               AppResult(appName, githubCodeResults, r.ret, <<>>, <<>>))
                   /\ UNCHANGED applicationErrors
  /\ pc' = AfterGitHubApp(i).pc
  /\ i' = AfterGitHubApp(i).i
  /\ githubCodeResults' = <<>>
  /\ UNCHANGED << cfgVars, outVars, normVars, clock, azureDevOpsCodeResults, summary >>

\* The second await of the GitHub loop body: appResults is pushed, or the
\* catch block runs.
GitHubFetchDependency ==
  /\ pc = "ghDep"
  /\ Request(i, "github", "dependency-scanning") \in inFlight
  /\ inFlight' = inFlight \ {Request(i, "github", "dependency-scanning")}
  /\ \E http \in HttpOutcomes(DependabotAlerts) :
       LET appName == githubApps[i]
           r == fetchDependencyScanningResults(http, BRANCH_NAME)
       IN  /\ calls' = Append(calls, Call(i, appName, "github", "dependency-scanning", ResponseKind(http), r))
           /\ IF IsThrow(r)
              THEN /\ applicationErrors' = GitHubPushError(applicationErrors, appName, r.threw)
                   /\ allApplicationsResults' = PushErrorResult(allApplicationsResults, appName)
              ELSE /\ allApplicationsResults' =
                        Append(allApplicationsResults,
                               AppResult(appName, githubCodeResults, r.ret, <<>>, <<>>))
                   /\ UNCHANGED applicationErrors
  /\ pc' = AfterGitHubApp(i).pc
  /\ i' = AfterGitHubApp(i).i
  /\ githubCodeResults' = <<>>
  /\ UNCHANGED << cfgVars, outVars, normVars, clock, azureDevOpsCodeResults, summary >>

\* The Azure DevOps loop body up to the first await and what follows.
AzureFetchCode ==
  /\ pc = "azCode"
  /\ Request(Len(githubApps) + i, "azure-devops", "code-scanning") \in inFlight
  /\ inFlight' = inFlight \ {Request(Len(githubApps) + i, "azure-devops", "code-scanning")}
  /\ \E http \in BuildsOutcomes :
       LET appName == azureApps[i]
           r == azureFetchCodeScanningResults(http, BRANCH_NAME)
       IN  /\ calls' = Append(calls, Call(Len(githubApps) + i, appName, "azure-devops",
                                          "code-scanning", ResponseKind(http), r))
           /\ IF IsThrow(r)
              THEN /\ applicationErrors' = AzurePushError(applicationErrors, appName, r.threw)
                   /\ allApplicationsResults' = PushErrorResult(allApplicationsResults, appName)
                   /\ pc' = AfterAzureApp(i).pc
                   /\ i' = AfterAzureApp(i).i
                   /\ azureDevOpsCodeResults' = <<>>
              ELSE /\ azureDevOpsCodeResults' = r.ret
                   /\ pc' = "azDep"
                   /\ UNCHANGED << i, applicationErrors, allApplicationsResults >>
  /\ UNCHANGED << cfgVars, outVars, normVars, clock, githubCodeResults, summary >>

\* The second await of the Azure DevOps loop body; time may have passed since
\* the clock was last read.
AzureFetchDependency ==
  /\ pc = "azDep"
  /\ Request(Len(githubApps) + i, "azure-devops", "dependency-scanning") \in inFlight
  /\ inFlight' = inFlight \ {Request(Len(githubApps) + i, "azure-devops", "dependency-scanning")}
  /\ \E now \in clock..MaxClock :
       LET appName == azureApps[i]
           r == azureFetchDependencyScanningResults(appName, BRANCH_NAME, now)
       IN  /\ clock' = now
           /\ calls' = Append(calls, Call(Len(githubApps) + i, appName, "azure-devops",
                                          "dependency-scanning", NoRequest, r))
           /\ IF IsThrow(r)
              THEN /\ applicationErrors' = AzurePushError(applicationErrors, appName, r.threw)
                   /\ allApplicationsResults' = PushErrorResult(allApplicationsResults, appName)
              ELSE /\ allApplicationsResults' =
                        Append(allApplicationsResults,
                               AppResult(appName, <<>>, <<>>, azureDevOpsCodeResults, r.ret))
                   /\ UNCHANGED applicationErrors
  /\ pc' = AfterAzureApp(i).pc
  /\ i' = AfterAzureApp(i).i
  /\ azureDevOpsCodeResults' = <<>>
  /\ UNCHANGED << cfgVars, outVars, normVars, githubCodeResults, summary >>

\* ----------------------------------------------------------------- summary
ZeroSeverity ==
  [critical |-> 0, high |-> 0, medium |-> 0, low |-> 0, warning |-> 0, note |-> 0]

\* Variant: the switch stops after case 'medium'.
CountSeverity_NoLow(sums, severity) ==
  IF severity = Str("critical") THEN [sums EXCEPT !.critical = @ + 1]
  ELSE IF severity = Str("high") THEN [sums EXCEPT !.high = @ + 1]
  ELSE IF severity = Str("medium") THEN [sums EXCEPT !.medium = @ + 1]
  ELSE sums

\* The switch on issue.severity: one bucket is incremented, or none.
CountSeverity(sums, severity) ==
  IF severity = Str("critical") THEN [sums EXCEPT !.critical = @ + 1]
  ELSE IF severity = Str("high") THEN [sums EXCEPT !.high = @ + 1]
  ELSE IF severity = Str("medium") THEN [sums EXCEPT !.medium = @ + 1]
  ELSE IF severity = Str("low") THEN [sums EXCEPT !.low = @ + 1]
  ELSE IF severity = Str("warning") THEN [sums EXCEPT !.warning = @ + 1]
  ELSE IF severity = Str("note") THEN [sums EXCEPT !.note = @ + 1]
  ELSE sums

\* The forEach over the four finding sets of one application.
RECURSIVE CountIssues(_, _)
CountIssues(issues, sums) ==
  IF issues = <<>> THEN sums
  ELSE CountIssues(Tail(issues), CountSeverity(sums, Head(issues).severity))

ZeroTotals ==
  [totalGithubCodeScanningIssues |-> 0,
   totalGithubDependencyScanningIssues |-> 0,
   totalAzureDevOpsCodeScanningIssues |-> 0,
   totalAzureDevOpsDependencyScanningIssues |-> 0,
   severitySummary |-> ZeroSeverity]

\* Variant: the GitHub code-scanning total is assigned (=) instead of
\* accumulated (+=).
AddApplication_Overwrite(acc, appResult) ==
  [totalGithubCodeScanningIssues |-> Len(appResult.githubResults.codeScanning),
   totalGithubDependencyScanningIssues |->
     acc.totalGithubDependencyScanningIssues + Len(appResult.githubResults.dependencyScanning),
   totalAzureDevOpsCodeScanningIssues |->
     acc.totalAzureDevOpsCodeScanningIssues + Len(appResult.azureDevOpsResults.codeScanning),
   totalAzureDevOpsDependencyScanningIssues |->
     acc.totalAzureDevOpsDependencyScanningIssues
       + Len(appResult.azureDevOpsResults.dependencyScanning),
   severitySummary |->
     CountIssues(appResult.githubResults.codeScanning
                   \o appResult.githubResults.dependencyScanning
                   \o appResult.azureDevOpsResults.codeScanning
                   \o appResult.azureDevOpsResults.dependencyScanning,
                 acc.severitySummary)]

\* Variant: the Azure DevOps dependency findings are added to the Azure DevOps
\* code-scanning total.
AddApplication_Swapped(acc, appResult) ==
  [totalGithubCodeScanningIssues |->
     acc.totalGithubCodeScanningIssues + Len(appResult.githubResults.codeScanning),
   totalGithubDependencyScanningIssues |->
     acc.totalGithubDependencyScanningIssues + Len(appResult.githubResults.dependencyScanning),
   totalAzureDevOpsCodeScanningIssues |->
     acc.totalAzureDevOpsCodeScanningIssues
       + Len(appResult.azureDevOpsResults.dependencyScanning),
   totalAzureDevOpsDependencyScanningIssues |->
     acc.totalAzureDevOpsDependencyScanningIssues
       + Len(appResult.azureDevOpsResults.codeScanning),
   severitySummary |->
     CountIssues(appResult.githubResults.codeScanning
                   \o appResult.githubResults.dependencyScanning
                   \o appResult.azureDevOpsResults.codeScanning
                   \o appResult.azureDevOpsResults.dependencyScanning,
                 acc.severitySummary)]

\* One iteration of the "Calculate totals" loop.
AddApplication(acc, appResult) ==
  [totalGithubCodeScanningIssues |->
     acc.totalGithubCodeScanningIssues + Len(appResult.githubResults.codeScanning),
   totalGithubDependencyScanningIssues |->
     acc.totalGithubDependencyScanningIssues + Len(appResult.githubResults.dependencyScanning),
   totalAzureDevOpsCodeScanningIssues |->
     acc.totalAzureDevOpsCodeScanningIssues + Len(appResult.azureDevOpsResults.codeScanning),
   totalAzureDevOpsDependencyScanningIssues |->
     acc.totalAzureDevOpsDependencyScanningIssues
       + Len(appResult.azureDevOpsResults.dependencyScanning),
   severitySummary |->
     CountIssues(appResult.githubResults.codeScanning
                   \o appResult.githubResults.dependencyScanning
                   \o appResult.azureDevOpsResults.codeScanning
                   \o appResult.azureDevOpsResults.dependencyScanning,
                 acc.severitySummary)]

\* The "Calculate totals" loop over allApplicationsResults, in order.
RECURSIVE CalculateTotals(_, _)
CalculateTotals(results, acc) ==
  IF results = <<>> THEN acc
  ELSE CalculateTotals(Tail(results), AddApplication(acc, Head(results)))

\* Variant: totalApplications counts the applications that did not fail.
MakeSummary_SuccessfulOnly(results, totalApplications) ==
  LET t == CalculateTotals(results, ZeroTotals)
  IN  [totalApplications |-> totalApplications - Len(applicationErrors),
       totalGithubCodeScanningIssues |-> t.totalGithubCodeScanningIssues,
       totalGithubDependencyScanningIssues |-> t.totalGithubDependencyScanningIssues,
       totalAzureDevOpsCodeScanningIssues |-> t.totalAzureDevOpsCodeScanningIssues,
       totalAzureDevOpsDependencyScanningIssues |->
         t.totalAzureDevOpsDependencyScanningIssues,
       severitySummary |-> t.severitySummary]

\* multiAppResults.summary
MakeSummary(results, totalApplications) ==
  LET t == CalculateTotals(results, ZeroTotals)
  IN  [totalApplications |-> totalApplications,
       totalGithubCodeScanningIssues |-> t.totalGithubCodeScanningIssues,
       totalGithubDependencyScanningIssues |-> t.totalGithubDependencyScanningIssues,
       totalAzureDevOpsCodeScanningIssues |-> t.totalAzureDevOpsCodeScanningIssues,
       totalAzureDevOpsDependencyScanningIssues |->
         t.totalAzureDevOpsDependencyScanningIssues,
       severitySummary |-> t.severitySummary]

\* Variant: the totals are computed between the two loops, from the results
\* the GitHub loop has pushed, and are not computed again.
ComputeSummary_BetweenLoops ==
  /\ \/ pc = "summary" /\ summary = NoSummary
     \/ pc = "azCode" /\ i = 1 /\ inFlight = {} /\ summary = NoSummary
  /\ summary' = MakeSummary(allApplicationsResults, Len(githubApps) + Len(azureApps))
  /\ pc' = IF pc = "summary" THEN "report" ELSE pc
  /\ UNCHANGED << cfgVars, outVars, normVars, clock, inFlight, i, githubCodeResults,
                  azureDevOpsCodeResults, allApplicationsResults, applicationErrors, calls >>

\* The summary statistics and multiAppResults, after both loops.
ComputeSummary ==
  /\ pc = "summary"
  /\ summary' = MakeSummary(allApplicationsResults, Len(githubApps) + Len(azureApps))
  /\ pc' = "report"
  /\ UNCHANGED << cfgVars, outVars, normVars, clock, inFlight, i, githubCodeResults,
                  azureDevOpsCodeResults, allApplicationsResults, applicationErrors, calls >>

\* ------------------------------------------------------------------ report
\* The four finding sets of one application, in the order the renderer
\* pushes them to allVulnerabilities.
VulnerabilitiesOf(app) ==
  app.githubResults.codeScanning \o app.githubResults.dependencyScanning
    \o app.azureDevOpsResults.codeScanning \o app.azureDevOpsResults.dependencyScanning

\* allVulnerabilities of renderMultiApplicationReport.
RECURSIVE AllVulnerabilities(_)
AllVulnerabilities(applications) ==
  IF applications = <<>> THEN <<>>
  ELSE VulnerabilitiesOf(Head(applications)) \o AllVulnerabilities(Tail(applications))

\* '' : the section is left out of the report.
NoErrorSection == [present |-> FALSE, items |-> <<>>]

\* Variant: the entries are listed latest first.
ErrorSection_LatestFirst(errors) ==
  IF Len(errors) > 0
  THEN [present |-> TRUE,
        items |-> [k \in DOMAIN errors |->
                     [heading |-> "Application: " \o errors[Len(errors) + 1 - k].applicationName,
                      text |-> errors[Len(errors) + 1 - k].error]]]
  ELSE NoErrorSection

\* errorSection of renderMultiApplicationReport: errors.map gives one
\* error-item per ScanError, with its applicationName in the heading and its
\* message in the paragraph; without errors the section is the empty string.
ErrorSection(errors) ==
  IF Len(errors) > 0
  THEN [present |-> TRUE,
        items |-> [k \in DOMAIN errors |->
                     [heading |-> "Application: " \o errors[k].applicationName,
                      text |-> errors[k].error]]]
  ELSE NoErrorSection

\* Variant: every application of the aggregate is shown as processed.
OverallSummaryCard_AllProcessed(data) ==
  [totalApplications |-> data.summary.totalApplications,
   successfullyProcessed |-> Len(data.applications),
   failedApplications |-> Len(data.errors),
   githubCodeIssues |-> data.summary.totalGithubCodeScanningIssues,
   githubDependencyIssues |-> data.summary.totalGithubDependencyScanningIssues,
   azureDevOpsCodeIssues |-> data.summary.totalAzureDevOpsCodeScanningIssues,
   azureDevOpsDependencyIssues |-> data.summary.totalAzureDevOpsDependencyScanningIssues]

\* overallSummaryCard of renderMultiApplicationReport: the numbers of its
\* summary cards (the severity cards are left out).
OverallSummaryCard(data) ==
  [totalApplications |-> data.summary.totalApplications,
   successfullyProcessed |-> Len(data.applications) - Len(data.errors),
   failedApplications |-> Len(data.errors),
   githubCodeIssues |-> data.summary.totalGithubCodeScanningIssues,
   githubDependencyIssues |-> data.summary.totalGithubDependencyScanningIssues,
   azureDevOpsCodeIssues |-> data.summary.totalAzureDevOpsCodeScanningIssues,
   azureDevOpsDependencyIssues |-> data.summary.totalAzureDevOpsDependencyScanningIssues]

\* renderReport on a multi-application aggregate: the table has one row per
\* element of allVulnerabilities, and the row of a finding calls
\* vuln.severity.toUpperCase(), which only a string has.
renderReport(data) ==
  LET allVulnerabilities == AllVulnerabilities(data.applications)
  IN  IF \E k \in DOMAIN allVulnerabilities : ~IsStr(allVulnerabilities[k].severity)
      THEN Throw("vuln.severity.toUpperCase is not a function")
      ELSE Ret([tableRows |-> Len(allVulnerabilities),
                errorSection |-> ErrorSection(data.errors),
                overallSummaryCard |-> OverallSummaryCard(data)])

\* multiAppResults (the timestamp is left out).
MultiAppResults ==
  [applications |-> allApplicationsResults, errors |-> applicationErrors,
   summary |-> summary]

\* The report is rendered and written and main returns; an exception of the
\* renderer goes to the outer catch and exit(1).
WriteReport ==
  /\ pc = "report"
  /\ LET reportHtml == renderReport(MultiAppResults)
     IN  /\ renders' = renders + 1
         /\ IF IsThrow(reportHtml)
            THEN pc' = "fatal" /\ UNCHANGED written
            ELSE pc' = "done" /\ written' = Append(written, reportHtml.ret)
  /\ UNCHANGED << cfgVars, normVars, clock, inFlight, i, githubCodeResults,
                  azureDevOpsCodeResults, allApplicationsResults, applicationErrors,
                  summary, calls >>

Next ==
  \/ Validate
  \/ BeginFetch
  \/ GitHubFetchCode
  \/ GitHubFetchDependency
  \/ AzureFetchCode
  \/ AzureFetchDependency
  \/ ComputeSummary
  \/ WriteReport

Spec == Init /\ [][Next]_vars

\* ------------------------------------------- one GitHub and one Azure entry
\* The run of main for the configuration GITHUB_APPLICATION_NAMES=svc-a,
\* AZURE_DEVOPS_APPLICATION_NAMES=svc-b, where a code-scanning response for
\* svc-a carries up to two alerts, of high and of low severity.
HighAlert == CodeAlert(Undef, Str("High"), Undef)
LowAlert == CodeAlert(Str("low"), Undef, Str("open"))

TwoAlertOutcomes ==
  {HttpOk(Array(a)) : a \in {<<>>} \cup {<<x>> : x \in {HighAlert, LowAlert}}
                              \cup {<<x, y>> : x, y \in {HighAlert, LowAlert}}}
    \cup {HttpOk(Obj("body"))} \cup GitHubHttpErrors

TwoAppsInit ==
  /\ githubApps = <<"svc-a">>
  /\ azureApps = <<"svc-b">>
  /\ unset = {}
  /\ pc = "validate"
  /\ i = 0
  /\ githubCodeResults = <<>>
  /\ azureDevOpsCodeResults = <<>>
  /\ allApplicationsResults = <<>>
  /\ applicationErrors = <<>>
  /\ summary = NoSummary
  /\ calls = <<>>
  /\ renders = 0
  /\ written = <<>>
  /\ clock = 0
  /\ inFlight = {}
  /\ raw = NoRaw
  /\ produced = <<>>

\* The first await of the GitHub loop body returns.
GitHubFetchTwoAlerts ==
  /\ pc = "ghCode"
  /\ Request(i, "github", "code-scanning") \in inFlight
  /\ inFlight' = inFlight \ {Request(i, "github", "code-scanning")}
  /\ \E http \in TwoAlertOutcomes : GitHubCodeFetched(http)
  /\ UNCHANGED << cfgVars, outVars, normVars, clock, azureDevOpsCodeResults, summary >>

TwoAppsNext ==
  \/ Validate
  \/ BeginFetch
  \/ GitHubFetchTwoAlerts
  \/ GitHubFetchDependency
  \/ AzureFetchCode
  \/ AzureFetchDependency
  \/ ComputeSummary
  \/ WriteReport

TwoAppsSpec == TwoAppsInit /\ [][TwoAppsNext]_vars

\* ------------------------------------------- the normalizers on their own
\* Raw severity values a payload may carry: known words in any case, words
\* of the other vocabulary, unknown words, names of inherited properties, a
\* number, the empty string, nothing.
RawSeverities ==
  { Undef, Str(""), Str("critical"), Str("HIGH"), Str("low"), Str("warning"),
    Str("note"), Str("error"), Str("recommendation"), Str("unknown"),
    Str("moderate"), Str("constructor"), Str("__proto__"), Num(5) }

\* Raw state values a payload may carry.
RawStates ==
  { Undef, Str("open"), Str("fixed"), Str("dismissed"), Str("closed"),
    Str("auto_dismissed") }

\* Raw timestamps a payload may carry.
RawTimestamps == { Undef, Str("2024-01-01T00:00:00Z"), Str("2024-06-01T00:00:00Z") }

\* A code-scanning alert with its optional fields present.
FullCodeAlert ==
  [EmptyAlert EXCEPT !.rule_severity = Str("error"), !.state = Str("open"),
                     !.created_at = Str("2024-01-01T00:00:00Z"),
                     !.updated_at = Str("2024-06-01T00:00:00Z"),
                     !.rule_description = Str("SQL injection"),
                     !.location_path = Str("src/db.ts"), !.start_line = Num(7),
                     !.snippet_code = Str("query(input)")]

\* A Dependabot alert with its optional fields present.
FullDependabotAlert ==
  [EmptyAlert EXCEPT !.advisory_severity = Str("critical"), !.state = Str("fixed"),
                     !.created_at = Str("2024-01-01T00:00:00Z"),
                     !.updated_at = Str("2024-06-01T00:00:00Z"),
                     !.advisory_description = Str("Prototype pollution"),
                     !.package_name = Str("lodash"),
                     !.dependency_version = Str("4.17.10"),
                     !.cve_id = Str("CVE-2020-8203")]

\* The raw records the normalizers are tried on.
RawRecords ==
  {[EmptyAlert EXCEPT !.rule_severity = s, !.advisory_severity = s] : s \in RawSeverities}
    \cup {[EmptyAlert EXCEPT !.severity = s] : s \in {Str("low"), Str("constructor")}}
    \cup {[EmptyAlert EXCEPT !.state = st] : st \in RawStates}
    \cup {[EmptyAlert EXCEPT !.created_at = c, !.updated_at = u] :
            c \in RawTimestamps, u \in RawTimestamps}
    \cup {FullCodeAlert, FullDependabotAlert, NullAlert, PrimitiveAlert(Str("alert"))}

\* One call of a producer of Findings: what it was given and what it returned.
Produced(producer, input, result) ==
  [producer |-> producer, input |-> input, result |-> result]

NormInit ==
  /\ raw \in RawRecords
  /\ produced = <<>>
  /\ clock = 0
  /\ inFlight = {}
  /\ githubApps = <<>>
  /\ azureApps = <<>>
  /\ unset = {}
  /\ pc = "normalize"
  /\ i = 0
  /\ githubCodeResults = <<>>
  /\ azureDevOpsCodeResults = <<>>
  /\ allApplicationsResults = <<>>
  /\ applicationErrors = <<>>
  /\ summary = NoSummary
  /\ calls = <<>>
  /\ renders = 0
  /\ written = <<>>

\* What a call of a producer leaves alone.
NormFrame ==
  UNCHANGED << cfgVars, outVars, raw, pc, i, inFlight, githubCodeResults,
               azureDevOpsCodeResults, allApplicationsResults, applicationErrors,
               summary, calls >>

\* mapGitHubAlertToResult is applied to the raw record.
NormalizeCodeAlert ==
  /\ Len(produced) < MaxCalls
  /\ produced' = Append(produced,
                        Produced("github-code", raw,
                                 mapGitHubAlertToResult(raw, BRANCH_NAME)))
  /\ UNCHANGED clock
  /\ NormFrame

\* mapGitHubDependabotAlertToResult is applied to the raw record.
NormalizeDependabotAlert ==
  /\ Len(produced) < MaxCalls
  /\ produced' = Append(produced,
                        Produced("github-dependency", raw,
                                 mapGitHubDependabotAlertToResult(raw, BRANCH_NAME)))
  /\ UNCHANGED clock
  /\ NormFrame

\* fetchCodeScanningResults receives a response whose only alert is the raw
\* record.
FetchCodeAlert ==
  /\ Len(produced) < MaxCalls
  /\ produced' = Append(produced,
                        Produced("github-code-fetch", raw,
                                 fetchCodeScanningResults(HttpOk(Array(<<raw>>)),
                                                          BRANCH_NAME)))
  /\ UNCHANGED clock
  /\ NormFrame

\* fetchDependencyScanningResults receives a response whose only alert is the
\* raw record.
FetchDependabotAlert ==
  /\ Len(produced) < MaxCalls
  /\ produced' = Append(produced,
                        Produced("github-dependency-fetch", raw,
                                 fetchDependencyScanningResults(HttpOk(Array(<<raw>>)),
                                                                BRANCH_NAME)))
  /\ UNCHANGED clock
  /\ NormFrame

\* The Azure DevOps dependency producer is called for an application.
SimulateAzureDependency ==
  /\ Len(produced) < MaxCalls
  /\ \E appName \in AppNames :
       produced' = Append(produced,
                          Produced("azure-dependency",
                                   [applicationName |-> appName, branchName |-> BRANCH_NAME],
                                   Ret(generateSimulatedResults(appName, BRANCH_NAME, clock))))
  /\ UNCHANGED clock
  /\ NormFrame

\* Time passes between two calls.
Tick ==
  /\ clock < MaxClock
  /\ clock' = clock + 1
  /\ UNCHANGED produced
  /\ NormFrame

NormNext ==
  \/ NormalizeCodeAlert
  \/ NormalizeDependabotAlert
  \/ FetchCodeAlert
  \/ FetchDependabotAlert
  \/ SimulateAzureDependency
  \/ Tick

NormSpec == NormInit /\ [][NormNext]_vars

\* -------------------------------------------- the connectors on their own
\* An application name is the sequence of its characters.
NameChars == {"p", "/"}
ApplicationNames == SeqsUpTo(NameChars, MaxNameLen) \ {<<>>}

\* applicationName.includes('/')
Includes(name, c) == \E k \in DOMAIN name : name[k] = c

\* applicationName.split('/'): the pieces between the separators.
RECURSIVE Split(_, _)
Split(name, c) ==
  IF ~Includes(name, c) THEN <<name>>
  ELSE LET first == CHOOSE k \in DOMAIN name :
                      name[k] = c /\ \A j \in 1..(k - 1) : name[j] # c
       IN  <<SubSeq(name, 1, first - 1)>> \o Split(SubSeq(name, first + 1, Len(name)), c)

\* The settings the two Azure DevOps services are constructed with.
AZURE_DEVOPS_ORG_NAME == <<"o">>
AZURE_DEVOPS_PROJECT_NAME == <<"d">>
\* AZURE_DEVOPS_BASE_URL: empty unless the environment sets it.
BaseUrls == {Str(""), Str("https://ado.example/_apis")}

\* projectName of AzureDevOpsCodeScanningResultService.fetchCodeScanningResults
CodeProjectName(defaultProjectName, applicationName) ==
  IF Includes(applicationName, "/") THEN Split(applicationName, "/")[1]
  ELSE defaultProjectName

\* projectName of
\* AzureDevOpsDependencyScanningResultService.fetchDependencyScanningResults
DependencyProjectName(defaultProjectName, applicationName) ==
  IF Includes(applicationName, "/") THEN Split(applicationName, "/")[1]
  ELSE defaultProjectName

\* https://dev.azure.com/${orgName}/${projectName}/_apis
ProjectUrl(orgName, projectName) == [org |-> orgName, project |-> projectName]
\* A base URL taken as it is configured.
FixedUrl(url) == [url |-> url]

\* baseURL of the client a fetch creates: this.baseUrl || the project's URL.
ClientBaseURL(baseUrl, orgName, projectName) ==
  IF Truthy(baseUrl) THEN FixedUrl(baseUrl.str) ELSE ProjectUrl(orgName, projectName)

\* The axios errors a request may be rejected with: with or without a
\* response, with or without a request, the response with or without a
\* message in its body.
AxiosErrors ==
  {HttpError(response, request, "Request failed") :
     response \in {NoResponse, Response(404, Str("Not Found")), Response(500, Undef)},
     request \in BOOLEAN}

\* A 2xx response whose second record cannot be read, after one that can.
UnreadableSecond == HttpOk(Array(<<CodeAlert(Undef, Str("High"), Undef), NullAlert>>))

\* What a connector is called with, and what its request meets.
ConnectorInputs ==
  [applicationName : ApplicationNames, baseUrl : BaseUrls,
   http : AxiosErrors \cup {UnreadableSecond}]

ConnInit ==
  /\ raw \in ConnectorInputs
  /\ produced = <<>>
  /\ clock = 0
  /\ inFlight = {}
  /\ githubApps = <<>>
  /\ azureApps = <<>>
  /\ unset = {}
  /\ pc = "connector"
  /\ i = 0
  /\ githubCodeResults = <<>>
  /\ azureDevOpsCodeResults = <<>>
  /\ allApplicationsResults = <<>>
  /\ applicationErrors = <<>>
  /\ summary = NoSummary
  /\ calls = <<>>
  /\ renders = 0
  /\ written = <<>>

\* The Azure DevOps code-scanning fetch creates its client.
CreateCodeClient ==
  /\ Len(produced) < MaxCalls
  /\ produced' =
       Append(produced,
              Produced("azure-code-client", raw,
                       Ret(ClientBaseURL(raw.baseUrl, AZURE_DEVOPS_ORG_NAME,
                                         CodeProjectName(AZURE_DEVOPS_PROJECT_NAME,
                                                         raw.applicationName)))))
  /\ UNCHANGED clock
  /\ NormFrame

\* The Azure DevOps dependency-scanning fetch creates its client.
CreateDependencyClient ==
  /\ Len(produced) < MaxCalls
  /\ produced' =
       Append(produced,
              Produced("azure-dependency-client", raw,
                       Ret(ClientBaseURL(raw.baseUrl, AZURE_DEVOPS_ORG_NAME,
                                         DependencyProjectName(AZURE_DEVOPS_PROJECT_NAME,
                                                               raw.applicationName)))))
  /\ UNCHANGED clock
  /\ NormFrame

\* The GitHub code-scanning fetch, its request meeting raw.http.
RequestGitHubCode ==
  /\ Len(produced) < MaxCalls
  /\ produced' = Append(produced,
                        Produced("github-code-request", raw,
                                 fetchCodeScanningResults(raw.http, BRANCH_NAME)))
  /\ UNCHANGED clock
  /\ NormFrame

\* The GitHub dependency-scanning fetch, its request meeting raw.http.
RequestGitHubDependency ==
  /\ Len(produced) < MaxCalls
  /\ produced' = Append(produced,
                        Produced("github-dependency-request", raw,
                                 fetchDependencyScanningResults(raw.http, BRANCH_NAME)))
  /\ UNCHANGED clock
  /\ NormFrame

\* The Azure DevOps code-scanning fetch, its request meeting raw.http.
RequestAzureCode ==
  /\ Len(produced) < MaxCalls
  /\ produced' = Append(produced,
                        Produced("azure-code-request", raw,
                                 azureFetchCodeScanningResults(raw.http, BRANCH_NAME)))
  /\ UNCHANGED clock
  /\ NormFrame

ConnNext ==
  \/ CreateCodeClient
  \/ CreateDependencyClient
  \/ RequestGitHubCode
  \/ RequestGitHubDependency
  \/ RequestAzureCode

ConnSpec == ConnInit /\ [][ConnNext]_vars

\* ------------------------------------------------ vocabulary of the claims
\* The configured applications in the order main visits them; an entry is a
\* position of this sequence (a name listed twice is two entries).
Configured == githubApps \o azureApps
TotalConfigured == Len(githubApps) + Len(azureApps)

\* The outer catch ran after the renderer threw.
RenderFailed == pc = "fatal" /\ renders > 0
\* Both loops are over.
LoopsFinished == pc \in {"summary", "report", "done"} \/ RenderFailed
\* multiAppResults exists.
Aggregated == pc \in {"report", "done"} \/ RenderFailed

\* The connector calls that raised, in the order they raised.
Raised == SelectSeq(calls, LAMBDA c : c.threw)
CallsOf(p) == {k \in DOMAIN calls : calls[k].entry = p}
EntryRaised(p) == \E k \in CallsOf(p) : calls[k].threw

AllEmpty(r) ==
  /\ r.githubResults.codeScanning = <<>>
  /\ r.githubResults.dependencyScanning = <<>>
  /\ r.azureDevOpsResults.codeScanning = <<>>
  /\ r.azureDevOpsResults.dependencyScanning = <<>>

FindingCount(r) ==
  Len(r.githubResults.codeScanning) + Len(r.githubResults.dependencyScanning)
    + Len(r.azureDevOpsResults.codeScanning) + Len(r.azureDevOpsResults.dependencyScanning)

\* The label the catch block of an entry's loop puts before the name.
PlatformLabel(p) == IF p <= Len(githubApps) THEN "GitHub: " ELSE "Azure DevOps: "
ErrorNameOf(p) == PlatformLabel(p) \o Configured[p]

\* C1: fault isolation across applications.  Whatever scans raise, once the
\* loops are over there is one ApplicationResult per configured entry; every
\* entry whose scan raised has an all-empty ApplicationResult and exactly one
\* ScanError (the k-th ScanError belongs to the k-th call that raised, and no
\* entry raises twice); and every entry, also one after a failed entry, had
\* its scan started.
C1_FaultIsolation ==
  /\ Len(applicationErrors) = Len(Raised)
  /\ \A p \in 1..Len(allApplicationsResults) :
       EntryRaised(p) =>
         /\ AllEmpty(allApplicationsResults[p])
         /\ Cardinality({k \in DOMAIN Raised : Raised[k].entry = p}) = 1
  /\ LoopsFinished =>
       /\ Len(allApplicationsResults) = TotalConfigured
       /\ \A p \in 1..TotalConfigured : CallsOf(p) # {}

\* A finished run in which an entry raised and a later entry was scanned.
C1_Witness ==
  /\ pc = "done"
  /\ \E p \in 1..TotalConfigured :
       /\ EntryRaised(p)
       /\ p < TotalConfigured
       /\ CallsOf(p + 1) # {}
       /\ AllEmpty(allApplicationsResults[p])

\* The number of members of a sequence that satisfy a test.
CountErrorsNamed(n) ==
  Cardinality({k \in DOMAIN applicationErrors : applicationErrors[k].applicationName = n})
CountRaisedNamed(n) ==
  Cardinality({p \in 1..Len(allApplicationsResults) : EntryRaised(p) /\ ErrorNameOf(p) = n})

\* C2: failure visibility.  In the aggregate, under every labelled name there
\* are exactly as many ScanErrors as entries of that name whose scan raised
\* (so an entry has a ScanError if and only if its scan raised), and every
\* entry whose scan raised has an all-empty placeholder and carries no
\* findings.
C2_FailureVisibility ==
  Aggregated =>
    /\ \A p \in 1..TotalConfigured :
         CountErrorsNamed(ErrorNameOf(p)) = CountRaisedNamed(ErrorNameOf(p))
    /\ \A k \in DOMAIN applicationErrors :
         \E p \in 1..TotalConfigured :
           EntryRaised(p) /\ ErrorNameOf(p) = applicationErrors[k].applicationName
    /\ \A p \in 1..TotalConfigured :
         EntryRaised(p) =>
           AllEmpty(allApplicationsResults[p]) /\ FindingCount(allApplicationsResults[p]) = 0

\* An aggregate with one entry that raised and one that carries findings.
C2_Witness ==
  /\ Aggregated
  /\ \E p, q \in 1..TotalConfigured :
       /\ EntryRaised(p)
       /\ CountErrorsNamed(ErrorNameOf(p)) = 1
       /\ ~EntryRaised(q)
       /\ FindingCount(allApplicationsResults[q]) > 0
       /\ CountErrorsNamed(ErrorNameOf(q)) = 0

ResultSet(r, platform, category) ==
  IF platform = "github"
  THEN IF category = "code-scanning" THEN r.githubResults.codeScanning
       ELSE r.githubResults.dependencyScanning
  ELSE IF category = "code-scanning" THEN r.azureDevOpsResults.codeScanning
       ELSE r.azureDevOpsResults.dependencyScanning

C6_SummaryCount ==
  /\ Len(applicationErrors) <= Len(allApplicationsResults)
  /\ Aggregated => summary.totalApplications = Len(allApplicationsResults)

\* An aggregate of a GitHub and an Azure DevOps application, one of them failed.
C6_Witness ==
  /\ Aggregated
  /\ Len(githubApps) = 1
  /\ Len(azureApps) = 1
  /\ Len(applicationErrors) = 1
  /\ summary.totalApplications = 2

\* The findings of all four finding sets of all ApplicationResults, as the
\* set of their positions.
FindingPositions(results, platform, category) ==
  UNION {{<<p, k>> : k \in DOMAIN ResultSet(results[p], platform, category)} :
           p \in DOMAIN results}

TotalFindings(results) ==
  Cardinality(FindingPositions(results, "github", "code-scanning"))
    + Cardinality(FindingPositions(results, "github", "dependency-scanning"))
    + Cardinality(FindingPositions(results, "azure-devops", "code-scanning"))
    + Cardinality(FindingPositions(results, "azure-devops", "dependency-scanning"))

SumOfBuckets(sums) ==
  sums.critical + sums.high + sums.medium + sums.low + sums.warning + sums.note

\* C7: fold consistency.  The sum of the six severitySummary buckets equals
\* the number of Findings over all four finding sets of all
\* ApplicationResults in applications.
C7_FoldConsistency ==
  Aggregated =>
    SumOfBuckets(summary.severitySummary) = TotalFindings(allApplicationsResults)

\* The injective maps of 1..n onto itself.
Reorderings(n) ==
  {f \in [1..n -> 1..n] : \A a, b \in 1..n : f[a] = f[b] => a = b}

\* C8: order independence of the summary.  Folding the ApplicationResults of
\* the run in any other order gives the summary the run computed: the same
\* four totals, the same six buckets, the same totalApplications.
C8_OrderIndependence ==
  Aggregated =>
    \A f \in Reorderings(Len(allApplicationsResults)) :
      MakeSummary([k \in 1..Len(allApplicationsResults) |-> allApplicationsResults[f[k]]],
                  TotalConfigured) = summary

\* An aggregate of two applications with different findings.
C8_Witness ==
  /\ Aggregated
  /\ Len(allApplicationsResults) = 2
  /\ FindingCount(allApplicationsResults[1]) > 0
  /\ FindingCount(allApplicationsResults[2]) > 0
  /\ allApplicationsResults[1].githubResults # allApplicationsResults[2].githubResults
  /\ summary.totalGithubCodeScanningIssues > 0

\* C9: each of the four per-platform-per-category totals equals the number
\* of Findings in the matching finding set over all ApplicationResults, and
\* an entry whose scan raised contributes nothing to any of them.
C9_TotalsMatch ==
  Aggregated =>
    /\ summary.totalGithubCodeScanningIssues
         = Cardinality(FindingPositions(allApplicationsResults, "github", "code-scanning"))
    /\ summary.totalGithubDependencyScanningIssues
         = Cardinality(FindingPositions(allApplicationsResults, "github",
                                        "dependency-scanning"))
    /\ summary.totalAzureDevOpsCodeScanningIssues
         = Cardinality(FindingPositions(allApplicationsResults, "azure-devops",
                                        "code-scanning"))
    /\ summary.totalAzureDevOpsDependencyScanningIssues
         = Cardinality(FindingPositions(allApplicationsResults, "azure-devops",
                                        "dependency-scanning"))
    /\ \A p \in 1..Len(allApplicationsResults) :
         EntryRaised(p) => FindingCount(allApplicationsResults[p]) = 0

\* An aggregate with Azure DevOps dependency findings and a failed entry.
C9_Witness ==
  /\ Aggregated
  /\ summary.totalAzureDevOpsDependencyScanningIssues = 2
  /\ summary.totalAzureDevOpsCodeScanningIssues = 0
  /\ \E p \in 1..Len(allApplicationsResults) : EntryRaised(p)

\* C10: output ordering.  applications lists the ApplicationResults in
\* configured order, the GitHub list first and then the Azure DevOps list;
\* errors lists the ScanErrors in the order the failures occurred, which is
\* the order of their placeholders in applications.
C10_OutputOrdering ==
  /\ \A p \in 1..Len(allApplicationsResults) :
       allApplicationsResults[p].applicationName = Configured[p]
  /\ LoopsFinished => Len(allApplicationsResults) = TotalConfigured
  /\ Len(applicationErrors) = Len(Raised)
  /\ \A k \in DOMAIN applicationErrors :
       k <= Len(Raised) =>
         applicationErrors[k] = [applicationName |-> ErrorNameOf(Raised[k].entry),
                                 error |-> Raised[k].message]
  /\ \A k, j \in DOMAIN Raised : k < j => Raised[k].entry < Raised[j].entry

\* A finished run of two GitHub applications that both failed, differently.
C10_Witness ==
  /\ pc = "done"
  /\ Len(githubApps) = 2
  /\ Len(applicationErrors) = 2
  /\ applicationErrors[1] # applicationErrors[2]

\* The configuration validateEnvironmentVariables rejects.
InvalidConfiguration == unset # {} \/ TotalConfigured = 0

\* C11: run completion.  Whatever the applications' scans did, the fatal exit
\* path is taken for a rejected configuration only; once the loops are over
\* the summary is computed, and a run that has ended has rendered the report
\* exactly once and written it.
C11_RunCompletion ==
  /\ pc = "fatal" => (InvalidConfiguration /\ calls = <<>>)
  /\ renders <= 1
  /\ Len(written) <= 1
  /\ pc = "done" => (summary # NoSummary /\ renders = 1 /\ Len(written) = 1)

GitHubNormalizers == {"github-code", "github-dependency"}

\* The raw input is a record (an object), not null and not a primitive.
IsRecord(input) == ~IsNullAlert(input) /\ ~IsPrimitiveAlert(input)

\* The raw severity a call site reads from a raw record, before its default.
RawSeverityAt(producer, alert) ==
  IF producer = "github-code"
  THEN Or(Prop(alert, "rule_severity"), Prop(alert, "severity"))
  ELSE Prop(alert, "advisory_severity")

\* The keys of the lookup table of a call site.
SeverityKeysAt(producer) ==
  IF producer = "github-code" THEN CodeSeverityKeys ELSE DepSeverityKeys

\* The raw severity is missing or is no key of the table (in any case).
NotAKey(producer, v) ==
  IF IsStr(v) THEN toLowerCase(v.str) \notin SeverityKeysAt(producer) ELSE TRUE

\* The Findings a call returned.
FindingsOf(e) ==
  IF IsThrow(e.result) THEN <<>>
  ELSE IF e.producer \in GitHubNormalizers THEN <<e.result.ret>>
  ELSE e.result.ret

\* All Findings the calls made so far returned.
ProducedFindings ==
  UNION {{FindingsOf(produced[k])[j] : j \in DOMAIN FindingsOf(produced[k])} :
           k \in DOMAIN produced}

CanonicalSeverities ==
  {Str("critical"), Str("high"), Str("medium"), Str("low"), Str("warning"), Str("note")}

CanonicalStates == {Str("open"), Str("fixed"), Str("dismissed")}

\* C13: severity default.  At both GitHub call sites, a record whose raw
\* severity is missing or is not a key of the call site's lookup table is
\* normalized without an exception to a Finding of severity 'medium'.
C13_SeverityDefault ==
  \A k \in DOMAIN produced :
    LET e == produced[k]
    IN  (/\ e.producer \in GitHubNormalizers
         /\ ~IsNullAlert(e.input)
         /\ NotAKey(e.producer, RawSeverityAt(e.producer, e.input)))
          => (~IsThrow(e.result) /\ e.result.ret.severity = Str("medium"))

\* C14: severity is total and closed.  Every Finding in every
\* ApplicationResult has a severity that is one of critical, high, medium,
\* low, warning, note.
C14_SeverityClosed ==
  \A p \in DOMAIN allApplicationsResults :
    \A k \in DOMAIN VulnerabilitiesOf(allApplicationsResults[p]) :
      VulnerabilitiesOf(allApplicationsResults[p])[k].severity \in CanonicalSeverities

\* C15: one severity table per platform.  When the code-scanning normalizer
\* and the dependency-scanning normalizer read the same raw severity value,
\* they give the same canonical severity.
C15_OneSeverityTable ==
  \A a, b \in DOMAIN produced :
    (/\ produced[a].producer = "github-code"
     /\ produced[b].producer = "github-dependency"
     /\ ~IsNullAlert(produced[a].input)
     /\ ~IsNullAlert(produced[b].input)
     /\ RawSeverityAt("github-code", produced[a].input)
          = RawSeverityAt("github-dependency", produced[b].input))
      => /\ IsThrow(produced[a].result) = IsThrow(produced[b].result)
         /\ ~IsThrow(produced[a].result) =>
              produced[a].result.ret.severity = produced[b].result.ret.severity

\* C16: every Finding a normalizer produced has a state that is one of open,
\* fixed, dismissed, whatever the raw state was.
C16_StateClosed ==
  \A f \in ProducedFindings : f.state \in CanonicalStates

\* C17: every Finding a normalizer produced has updatedAt >= createdAt,
\* whichever of the raw timestamps are present.
C17_UpdatedNotBeforeCreated ==
  \A f \in ProducedFindings : DateGe(f.updatedAt, f.createdAt)

\* A Finding carries a field when the field is there with a value other than
\* undefined and the empty string.
Carries(f, field) ==
  IF field \in DOMAIN f THEN f[field] \notin {Undef, Str("")} ELSE FALSE

\* The file-location and code-snippet fields of the two platforms.
LocationFields == {"filePath", "startLine", "codeSnippet", "line", "column", "snippet"}
\* The package name, package version and advisory id fields of the two platforms.
PackageFields ==
  {"packageName", "version", "cveId", "package", "packageVersion", "vulnerabilityId"}

\* C18: category-legal extension fields.  A Finding carries a file-location
\* or code-snippet field only if its category is code-scanning, and a package
\* name, package version or advisory id only if its category is
\* dependency-scanning.
C18_CategoryLegalFields ==
  \A f \in ProducedFindings :
    /\ (\E field \in LocationFields : Carries(f, field)) => f.category = "code-scanning"
    /\ (\E field \in PackageFields : Carries(f, field)) => f.category = "dependency-scanning"

\* C19: missing fields are tolerated.  A GitHub normalizer given a record
\* does not raise, and puts the documented substitute where an optional field
\* is missing; and when the normalizer raises for a raw record, the fetch
\* that met that record raises to its caller.
C19_MissingFieldsTolerated ==
  \A k \in DOMAIN produced :
    LET e == produced[k]
    IN  /\ (e.producer \in GitHubNormalizers /\ IsRecord(e.input)) =>
             /\ ~IsThrow(e.result)
             /\ IsUndef(e.input.state) => e.result.ret.state = Str("open")
             /\ (IsUndef(e.input.rule_description) /\ IsUndef(e.input.message_text)
                   /\ IsUndef(e.input.advisory_description)) =>
                  e.result.ret.description = Str("No description provided")
             /\ (IsUndef(e.input.location_path) /\ IsUndef(e.input.location_file)) =>
                  e.result.ret.filePath = Str("")
             /\ IsUndef(e.input.snippet_code) => e.result.ret.codeSnippet = Str("")
        /\ (e.producer = "github-code-fetch"
              /\ IsThrow(mapGitHubAlertToResult(e.input, BRANCH_NAME))) =>
             IsThrow(e.result)
        /\ (e.producer = "github-dependency-fetch"
              /\ IsThrow(mapGitHubDependabotAlertToResult(e.input, BRANCH_NAME))) =>
             IsThrow(e.result)

\* C20: normalization is deterministic.  Two calls of the same producer on
\* the same input return Findings equal in every field.
C20_Deterministic ==
  \A a, b \in DOMAIN produced :
    (produced[a].producer = produced[b].producer /\ produced[a].input = produced[b].input)
      => produced[a].result = produced[b].result

\* ----------------------------------------------- the two-application run
\* svc-a is the first entry and its GitHub scan returned two code findings,
\* of high and of low severity in that order, and no dependency finding.
SvcAHighLow ==
  /\ Len(Configured) = 2
  /\ Configured[1] = "svc-a"
  /\ \E k, j \in CallsOf(1) :
       /\ calls[k].category = "code-scanning"
       /\ ~calls[k].threw
       /\ Len(calls[k].findings) = 2
       /\ calls[k].findings[1].severity = Str("high")
       /\ calls[k].findings[2].severity = Str("low")
       /\ calls[j].category = "dependency-scanning"
       /\ ~calls[j].threw
       /\ calls[j].findings = <<>>

\* svc-b is the second entry and its Azure DevOps scan failed.
SvcBFailed == Len(Configured) = 2 /\ Configured[2] = "svc-b" /\ EntryRaised(2)

\* What every reading of the scenario expects of the aggregate, the name of
\* the ScanError apart.
TwoAppsAggregate ==
  /\ Len(allApplicationsResults) = 2
  /\ Len(applicationErrors) = 1
  /\ summary.severitySummary.high = 1
  /\ summary.severitySummary.low = 1
  /\ summary.totalGithubCodeScanningIssues = 2

TimesIn(list, name) == Cardinality({k \in DOMAIN list : list[k] = name})

\* The positions of allApplicationsResults that carry a name.
ResultsNamed(name) ==
  {k \in DOMAIN allApplicationsResults :
     allApplicationsResults[k].applicationName = name}

\* C22: after both loops no application name appears in applications more
\* than once, also when the application is configured once for GitHub and
\* once for Azure DevOps (one ApplicationResult per application per run).
C22_OneResultPerApplication ==
  LoopsFinished =>
    \A name \in AppNames :
      (TimesIn(githubApps, name) <= 1 /\ TimesIn(azureApps, name) <= 1)
        => Cardinality(ResultsNamed(name)) <= 1

\* ------------------------------------------------------ the written report
\* C23: the error section of every written report has one entry per
\* ScanError of the aggregate, in the same order, each showing that error's
\* applicationName and message; the section is left out exactly when the
\* aggregate has no error.
C23_ErrorSection ==
  \A w \in DOMAIN written :
    LET section == written[w].errorSection
    IN  /\ section.present <=> Len(applicationErrors) > 0
        /\ Len(section.items) = Len(applicationErrors)
        /\ \A k \in DOMAIN applicationErrors :
             /\ section.items[k].heading
                  = "Application: " \o applicationErrors[k].applicationName
             /\ section.items[k].text = applicationErrors[k].error

C23_Witness ==
  /\ pc = "done"
  /\ Len(written) = 1
  /\ Len(applicationErrors) = 2
  /\ applicationErrors[1] # applicationErrors[2]
  /\ written[1].errorSection.present

\* ------------------------------------------------------- empty responses
\* C24: a connector whose remote call succeeded but returned nothing usable
\* (an empty list, or a body that is not a list) returns an empty sequence
\* and raises no error, and no ScanError is recorded for it: the errors are
\* as many as the calls that raised.
C24_NothingUsableIsEmpty ==
  \A k \in DOMAIN calls :
    calls[k].response = "nothing"
      => /\ ~calls[k].threw
         /\ calls[k].findings = <<>>
         /\ Len(applicationErrors) = Len(Raised)

C24_Witness ==
  /\ LoopsFinished
  /\ Len(applicationErrors) = 0
  /\ \E k, j \in DOMAIN calls :
       /\ calls[k].platform = "github"
       /\ calls[k].category = "code-scanning"
       /\ calls[k].response = "nothing"
       /\ calls[j].platform = "azure-devops"
       /\ calls[j].response = "nothing"

\* ------------------------------------------------------- single writer
\* C25: the summary is computed in one step, which is taken only when both
\* loops are over, every configured application has its result or its
\* placeholder and no connector call is awaited; from the moment the loops are
\* over no connector call is started or returns, applications and errors
\* do not change, and a summary once computed is never computed again.
C25_SingleWriter ==
  [][ /\ (summary = NoSummary /\ summary' # NoSummary)
           => /\ pc = "summary"
              /\ Len(allApplicationsResults) = TotalConfigured
              /\ inFlight = {}
      /\ (pc = "summary" \/ summary # NoSummary)
           => /\ calls' = calls
              /\ inFlight' = {}
              /\ allApplicationsResults' = allApplicationsResults
              /\ applicationErrors' = applicationErrors
      /\ summary # NoSummary => summary' = summary
    ]_vars

C25_Witness ==
  /\ pc = "done"
  /\ summary # NoSummary
  /\ TotalConfigured = 2
  /\ Len(calls) = 3
  /\ Len(applicationErrors) = 1

\* ------------------------------------------------------ project selection
\* The part of a name before its first '/', for a name that has one.
IsPartBeforeFirstSlash(part, name) ==
  \E k \in DOMAIN name :
    /\ name[k] = "/"
    /\ \A j \in 1..(k - 1) : name[j] # "/"
    /\ part = SubSeq(name, 1, k - 1)

\* The project a name selects by the documented rule.
SelectsProject(project, name) ==
  IF \E k \in DOMAIN name : name[k] = "/"
  THEN IsPartBeforeFirstSlash(project, name)
  ELSE project = AZURE_DEVOPS_PROJECT_NAME

\* C26: the client of either Azure DevOps connector addresses the project the
\* application name selects: the part before the first '/', or the default
\* project AZURE_DEVOPS_PROJECT_NAME for a name without '/'.
C26_ProjectSelection ==
  \A k \in DOMAIN produced :
    produced[k].producer \in {"azure-code-client", "azure-dependency-client"}
      => /\ "project" \in DOMAIN produced[k].result.ret
         /\ SelectsProject(produced[k].result.ret.project, produced[k].input.applicationName)

\* ------------------------------------------------- classified failures
\* The calls of a connector whose request met raw.http.
RequestProducers ==
  {"github-code-request", "github-dependency-request", "azure-code-request"}

\* The platform a request producer names in its messages.
PlatformNameOf(producer) ==
  IF producer = "azure-code-request" THEN "Azure DevOps" ELSE "GitHub"

\* The message the taxonomy gives an axios error: an API error when the error
\* has a response, else a network error when it has a request, else a
\* request-setup error.
ClassifiedMessage(platform, error) ==
  CASE error.response # NoResponse ->
         platform \o " API Error: " \o ToString(error.response.status) \o " - "
           \o (IF IsStr(error.response.data_message)
               THEN error.response.data_message.str ELSE error.message)
    [] error.response = NoResponse /\ error.request ->
         "Network Error: No response received from " \o platform \o " API"
    [] error.response = NoResponse /\ ~error.request ->
         "Request Setup Error: " \o error.message

\* C27: a connector whose request fails raises exactly the classified error
\* its failure has by the precedence response, request, otherwise; and after
\* a failure inside the call (a record that cannot be read) it raises a
\* request-setup error instead of returning the records read so far.
C27_ClassifiedFailure ==
  \A k \in DOMAIN produced :
    produced[k].producer \in RequestProducers
      => LET http == produced[k].input.http
             result == produced[k].result
         IN  /\ IsHttpError(http)
                  => /\ IsThrow(result)
                     /\ result.threw
                          = ClassifiedMessage(PlatformNameOf(produced[k].producer), http.error)
             /\ (http = UnreadableSecond /\ produced[k].producer # "azure-code-request")
                  => /\ IsThrow(result)
                     /\ produced[k].producer = "github-code-request"
                          => result.threw = "Request Setup Error: "
                               \o "Cannot read properties of null (reading 'tool')"

C27_Witness ==
  /\ Len(produced) = 2
  /\ produced[1].producer = "github-code-request"
  /\ produced[2].producer = "azure-code-request"
  /\ IsHttpError(raw.http)
  /\ raw.http.error.response # NoResponse
  /\ raw.http.error.request
  /\ IsThrow(produced[1].result)

\* ------------------------------------------------------ sequential scanning
\* The connector calls made so far, returned or awaited, are those of the
\* first applications of the configured order, each application's
\* code-scanning call before its dependency-scanning call.
EntriesInOrder ==
  /\ \A k, j \in DOMAIN calls : k < j =>
       \/ calls[k].entry < calls[j].entry
       \/ /\ calls[k].entry = calls[j].entry
          /\ calls[k].category = "code-scanning"
          /\ calls[j].category = "dependency-scanning"
  /\ \A r \in inFlight : \A k \in DOMAIN calls :
       \/ calls[k].entry < r.entry
       \/ /\ calls[k].entry = r.entry
          /\ calls[k].category = "code-scanning"
          /\ r.category = "dependency-scanning"

AzureScanned ==
  {p \in (Len(githubApps) + 1)..TotalConfigured :
     p <= Len(allApplicationsResults) /\ ~EntryRaised(p)}

\* C29: the ApplicationResult of a GitHub entry has both Azure DevOps sets
\* empty and that of an Azure DevOps entry has both GitHub sets empty; an
\* Azure DevOps entry that did not fail has no code finding and exactly two
\* dependency findings, one high and one medium; so in the aggregate
\* totalAzureDevOpsCodeScanningIssues is 0 and
\* totalAzureDevOpsDependencyScanningIssues is twice the number of Azure
\* DevOps entries that did not fail.
C29_PlatformSeparation ==
  /\ \A p \in DOMAIN allApplicationsResults :
       LET r == allApplicationsResults[p]
       IN  IF p <= Len(githubApps)
           THEN /\ r.azureDevOpsResults.codeScanning = <<>>
                /\ r.azureDevOpsResults.dependencyScanning = <<>>
           ELSE /\ r.githubResults.codeScanning = <<>>
                /\ r.githubResults.dependencyScanning = <<>>
                /\ p \in AzureScanned
                     => /\ r.azureDevOpsResults.codeScanning = <<>>
                        /\ Len(r.azureDevOpsResults.dependencyScanning) = 2
                        /\ r.azureDevOpsResults.dependencyScanning[1].severity = Str("high")
                        /\ r.azureDevOpsResults.dependencyScanning[2].severity = Str("medium")
  /\ Aggregated
       => /\ summary.totalAzureDevOpsCodeScanningIssues = 0
          /\ summary.totalAzureDevOpsDependencyScanningIssues = 2 * Cardinality(AzureScanned)

C29_Witness ==
  /\ pc = "done"
  /\ Len(githubApps) = 1
  /\ Len(azureApps) = 1
  /\ AzureScanned = {2}
  /\ Len(allApplicationsResults[1].githubResults.codeScanning) = 1
  /\ summary.totalAzureDevOpsDependencyScanningIssues = 2

\* ----------------------------------------------------- the report's counts
\* C30: in every written report 'Failed Applications' is errors.length,
\* 'Successfully Processed' is applications.length - errors.length and is
\* not negative, the two add up to the 'Total Applications' shown, and the
\* findings table has one row per Finding of the aggregate, as many as the
\* four totals of the summary together.
C30_ReportCounts ==
  \A w \in DOMAIN written :
    LET card == written[w].overallSummaryCard
    IN  /\ card.failedApplications = Len(applicationErrors)
        /\ card.successfullyProcessed
             = Len(allApplicationsResults) - Len(applicationErrors)
        /\ card.successfullyProcessed >= 0
        /\ card.successfullyProcessed + card.failedApplications = card.totalApplications
        /\ written[w].tableRows = TotalFindings(allApplicationsResults)
        /\ written[w].tableRows
             = card.githubCodeIssues + card.githubDependencyIssues
                 + card.azureDevOpsCodeIssues + card.azureDevOpsDependencyIssues

C30_Witness ==
  /\ pc = "done"
  /\ Len(written) = 1
  /\ written[1].overallSummaryCard.failedApplications = 1
  /\ written[1].overallSummaryCard.successfullyProcessed = 1
  /\ written[1].tableRows = 1

====
